---- MODULE Spec2Model ----
(***************************************************************************)
(* luigipipes: a pipeline of one source, ordered filters and ordered       *)
(* sinks (src/src/pipeline.rs), with the Source, Filter and Sink traits    *)
(* (src/src/source.rs, filter.rs, sink.rs).                                *)
(*                                                                         *)
(* An Option<T> is modelled as a sequence of length at most one:           *)
(* <<>> is None and <<x>> is Some(x).                                      *)
(***************************************************************************)
EXTENDS Integers, Sequences, FiniteSets, TLC

\* ------------------------------------------------------------------ bounds
MaxItem == 2
MaxLen == 2
MaxFilters == 2
MaxSinks == 2

Items == 1..MaxItem

SeqsUpTo(S, n) == UNION {[1..k -> S] : k \in 0..n}

Range(s) == {s[i] : i \in DOMAIN s}

Reverse(s) == [i \in 1..Len(s) |-> s[Len(s) + 1 - i]]

\* ------------------------------------------------------------- the traits
\* A vector source that hands out its first element first.
VecNextFront(v) ==
    IF v = <<>>
    THEN [val |-> <<>>, rest |-> v]
    ELSE [val |-> <<v[1]>>, rest |-> SubSeq(v, 2, Len(v))]

\* impl Source<T> for Vec<T>: next() is Vec::pop, the last element first.
VecNext(v) ==
    IF v = <<>>
    THEN [val |-> <<>>, rest |-> v]
    ELSE [val |-> <<v[Len(v)]>>, rest |-> SubSeq(v, 1, Len(v) - 1)]

\* Source::next behind `for item in self.source`, for any producer: a
\* producer is the sequence of its answers to come, the last one first. A
\* 0 is the answer None with more answers behind it, as a producer gives
\* that yields again after it reported exhaustion; a vector holds no 0 and
\* answers None when it is empty.
SourceNext(src) ==
    IF src # <<>> /\ src[Len(src)] = 0
    THEN [val |-> <<>>, rest |-> SubSeq(src, 1, Len(src) - 1)]
    ELSE VecNext(src)

\* The sources handed to add_source: in-memory vectors of items.
Sources == SeqsUpTo(Items, MaxLen)

\* A filter answers should_pass for every item but those of `except`, for
\* which it answers the opposite; the tests' MockFilter answers should_pass
\* for every item.
MockFilter(should_pass) == [should_pass |-> should_pass, except |-> {}]

\* A filter that keeps the item 1 and drops every other item.
KeepOne == [should_pass |-> FALSE, except |-> {1}]

FilterKinds == {MockFilter(TRUE), MockFilter(FALSE), KeepOne}

\* Filter::filter(&self, item) -> bool: true keeps the item.
FilterCall(f, item) ==
    IF item \in f.except THEN ~f.should_pass ELSE f.should_pass

\* Result<(), Box<dyn Error>>
Ok == [ok |-> TRUE, err |-> "none"]

Err(e) == [ok |-> FALSE, err |-> e]

\* A sink is the set of items whose save fails and the error it then
\* reports; the tests' MockSink never fails.
MockSink == [failsOn |-> {}, err |-> "none"]

FailSinkA == [failsOn |-> {1}, err |-> "ErrA"]

FailSinkB == [failsOn |-> {2}, err |-> "ErrB"]

SinkKinds == {MockSink, FailSinkA, FailSinkB}

\* Sink::save(&self, item) -> Result<(), Box<dyn Error>>
SinkSave(s, item) == IF item \in s.failsOn THEN Err(s.err) ELSE Ok

\* ------------------------------------------------------------------ state
VARIABLES
    pc,         \* "Builder", "BuildFailed", "Built", "Pulling", "Filtering",
                \* "Persisting", "Completed", "Aborted"
    b,          \* the PipelineBuilder: [source (Option), sinks, filters]
    buildErr,   \* the BuilderError build returned, "none" if none
    pipeline,   \* Option of the Pipeline: [source, sinks, filters]
    item,       \* Option: the item of the current loop iteration
    fi,         \* index of the filter about to be called
    si,         \* index of the sink about to be called
    result,     \* Option: what run returned
    saved,      \* saved[j]: the items sink j saved, in order
    log,        \* every call made on a source, filter or sink, in order
    given       \* Option: the vector last handed over as the source

vars == <<pc, b, buildErr, pipeline, item, fi, si, result, saved, log, given>>

Event(op, idx, it, res) == [op |-> op, idx |-> idx, item |-> it, res |-> res]

\* PipelineBuilder::new
NewBuilder == [source |-> <<>>, sinks |-> <<>>, filters |-> <<>>]

Init ==
    /\ pc = "Builder"
    /\ b = NewBuilder
    /\ buildErr = "none"
    /\ pipeline = <<>>
    /\ item = <<>>
    /\ fi = 0
    /\ si = 0
    /\ result = <<>>
    /\ saved = <<>>
    /\ log = <<>>
    /\ given = <<>>

runVars == <<item, fi, si, result, saved, log>>

\* ---------------------------------------------------------------- builder
\* An add_source that keeps a source that is already set.
AddSourceKeepFirst(s) ==
    /\ pc = "Builder"
    /\ b' = IF b.source = <<>> THEN [b EXCEPT !.source = <<s>>] ELSE b
    /\ given' = <<s>>
    /\ UNCHANGED <<pc, buildErr, pipeline, runVars>>

AddSource(s) ==
    /\ pc = "Builder"
    /\ b' = [b EXCEPT !.source = <<s>>]
    /\ given' = <<s>>
    /\ UNCHANGED <<pc, buildErr, pipeline, runVars>>

AddSink(s) ==
    /\ pc = "Builder"
    /\ Len(b.sinks) < MaxSinks
    /\ b' = [b EXCEPT !.sinks = Append(@, s)]
    /\ UNCHANGED <<pc, buildErr, pipeline, runVars, given>>

AddFilter(f) ==
    /\ pc = "Builder"
    /\ Len(b.filters) < MaxFilters
    /\ b' = [b EXCEPT !.filters = Append(@, f)]
    /\ UNCHANGED <<pc, buildErr, pipeline, runVars, given>>

\* A build that falls back to an empty vector when no source was set.
BuildOfDefaultSource(bld) ==
    [err |-> "none",
     pipeline |-> <<[source |-> IF bld.source = <<>> THEN <<>>
                                ELSE bld.source[1],
                     sinks |-> bld.sinks,
                     filters |-> bld.filters]>>]

\* A build that also rejects a builder without sinks.
BuildOfNeedingSinks(bld) ==
    IF bld.source = <<>> \/ bld.sinks = <<>>
    THEN [err |-> "NoSource", pipeline |-> <<>>]
    ELSE [err |-> "none",
          pipeline |-> <<[source |-> bld.source[1],
                          sinks |-> bld.sinks,
                          filters |-> bld.filters]>>]

\* What build returns for a builder: the BuilderError and the Option of the
\* Pipeline.
BuildOf(bld) ==
    IF bld.source = <<>>
    THEN [err |-> "NoSource", pipeline |-> <<>>]
    ELSE [err |-> "none",
          pipeline |-> <<[source |-> bld.source[1],
                          sinks |-> bld.sinks,
                          filters |-> bld.filters]>>]

Build ==
    /\ pc = "Builder"
    /\ buildErr' = BuildOf(b).err
    /\ pipeline' = BuildOf(b).pipeline
    /\ pc' = IF BuildOf(b).err = "none" THEN "Built" ELSE "BuildFailed"
    /\ UNCHANGED <<b, runVars, given>>

\* -------------------------------------------------------------------- run
P == pipeline[1]

Ctl(p, f, s) == [pc |-> p, fi |-> f, si |-> s]

\* A run loop that drops the result of save instead of returning its error.
AfterSaveIgnoringFailure(j, r) ==
    IF j < Len(P.sinks) THEN Ctl("Persisting", 0, j + 1)
    ELSE Ctl("Pulling", 0, 0)

\* A run loop that leaves the sink loop after the first successful save.
AfterSaveFirstSinkOnly(j, r) ==
    IF ~r.ok THEN Ctl("Aborted", 0, 0)
    ELSE IF j = 0 /\ j < Len(P.sinks) THEN Ctl("Persisting", 0, j + 1)
    ELSE Ctl("Pulling", 0, 0)

\* A run that returns once the first surviving item is saved, instead of
\* going on to the next item.
AfterSaveReturnsEarly(j, r) ==
    IF ~r.ok THEN Ctl("Aborted", 0, 0)
    ELSE IF j < Len(P.sinks) THEN Ctl("Persisting", 0, j + 1)
    ELSE IF j = 0 THEN Ctl("Pulling", 0, 0)
    ELSE Ctl("Completed", 0, 0)

\* A sink loop that walks the sinks from the last to the first.
AfterSaveBackwards(j, r) ==
    IF ~r.ok THEN Ctl("Aborted", 0, 0)
    ELSE IF j = 0
         THEN (IF Len(P.sinks) = 0 THEN Ctl("Pulling", 0, 0)
               ELSE Ctl("Persisting", 0, Len(P.sinks)))
    ELSE IF j > 1 THEN Ctl("Persisting", 0, j - 1)
    ELSE Ctl("Pulling", 0, 0)

\* A run that returns at the first surviving item when there is no sink.
AfterSaveNoSinksReturns(j, r) ==
    IF ~r.ok THEN Ctl("Aborted", 0, 0)
    ELSE IF j < Len(P.sinks) THEN Ctl("Persisting", 0, j + 1)
    ELSE IF Len(P.sinks) = 0 THEN Ctl("Completed", 0, 0)
    ELSE Ctl("Pulling", 0, 0)

\* After sink j returned r for the current item: `?` returns the error,
\* otherwise the next sink, and after the last sink the next item.
AfterSave(j, r) ==
    IF ~r.ok THEN Ctl("Aborted", 0, 0)
    ELSE IF j < Len(P.sinks) THEN Ctl("Persisting", 0, j + 1)
    ELSE Ctl("Pulling", 0, 0)

\* A run loop that consults only the first filter.
AfterFilterFirstOnly(j, r) ==
    IF ~r THEN Ctl("Pulling", 0, 0)
    ELSE IF j = 0 /\ j < Len(P.filters) THEN Ctl("Filtering", j + 1, 0)
    ELSE AfterSave(0, Ok)

\* A run loop in which only the last filter's answer counts.
AfterFilterLastOnly(j, r) ==
    IF j < Len(P.filters) THEN Ctl("Filtering", j + 1, 0)
    ELSE IF ~r THEN Ctl("Pulling", 0, 0)
    ELSE AfterSave(0, Ok)

\* A run loop whose filter test lost its negation: an item is dropped by the
\* first filter that keeps it.
AfterFilterInverted(j, r) ==
    IF j > 0 /\ r THEN Ctl("Pulling", 0, 0)
    ELSE IF j < Len(P.filters) THEN Ctl("Filtering", j + 1, 0)
    ELSE AfterSave(0, Ok)

\* A run loop whose filter test lost its `continue`: a dropped item goes on
\* to the sinks.
AfterFilterMissingContinue(j, r) ==
    IF ~r THEN AfterSave(0, Ok)
    ELSE IF j < Len(P.filters) THEN Ctl("Filtering", j + 1, 0)
    ELSE AfterSave(0, Ok)

\* After filter j returned r for the current item (j = 0: no filter called
\* yet): any() stops at the first filter that does not keep the item, and
\* the item goes to the sinks when no filter is left.
AfterFilter(j, r) ==
    IF ~r THEN Ctl("Pulling", 0, 0)
    ELSE IF j < Len(P.filters) THEN Ctl("Filtering", j + 1, 0)
    ELSE AfterSave(0, Ok)

\* An error conversion that wraps every sink error into one kind.
PropagateAsOneKind(e) == "SinkError"

\* The error `?` hands to the caller of run.
Propagate(e) == e

\* An any() that became all(): an item is dropped only if every filter
\* drops it.
DropsIfAll(filters, it) ==
    \A j \in DOMAIN filters : ~FilterCall(filters[j], it)

\* self.filters.iter().any(|f| !f.filter(&item)): the item is dropped.
Drops(filters, it) ==
    \E j \in DOMAIN filters : ~FilterCall(filters[j], it)

\* The sink loop for one item, from sink j on: the saved items afterwards
\* and the result (the first error, if any).
RECURSIVE SaveAll(_, _, _, _)
SaveAll(sinks, it, sv, j) ==
    IF j > Len(sinks) THEN [result |-> Ok, saved |-> sv]
    ELSE LET r == SinkSave(sinks[j], it)
         IN  IF r.ok
             THEN SaveAll(sinks, it, [sv EXCEPT ![j] = Append(@, it)], j + 1)
             ELSE [result |-> Err(Propagate(r.err)), saved |-> sv]

\* run as a function of the pipeline's parts: what it returns and what
\* each sink has saved when it returns.
RECURSIVE RunFrom(_, _, _, _)
RunFrom(src, filters, sinks, sv) ==
    LET n == VecNext(src)
    IN  IF n.val = <<>> THEN [result |-> Ok, saved |-> sv]
        ELSE IF Drops(filters, n.val[1])
             THEN RunFrom(n.rest, filters, sinks, sv)
             ELSE LET s == SaveAll(sinks, n.val[1], sv, 1)
                  IN  IF s.result.ok
                      THEN RunFrom(n.rest, filters, sinks, s.saved)
                      ELSE s

RunOutcome(src, filters, sinks) ==
    RunFrom(src, filters, sinks, [j \in DOMAIN sinks |-> <<>>])

Run ==
    /\ pc = "Built"
    /\ pc' = "Pulling"
    /\ saved' = [j \in DOMAIN P.sinks |-> <<>>]
    /\ UNCHANGED <<b, buildErr, pipeline, item, fi, si, result, log, given>>

\* A loop that takes None for a gap and asks again while the producer has
\* answers left.
PullPastExhaustion ==
    /\ pc = "Pulling"
    /\ LET n == SourceNext(P.source)
           c == AfterFilter(0, TRUE)
       IN  /\ pipeline' = <<[P EXCEPT !.source = n.rest]>>
           /\ log' = Append(log, Event("next", 0, n.val,
                                       IF n.val = <<>> THEN "none" ELSE "some"))
           /\ IF n.val = <<>>
              THEN /\ pc' = IF n.rest = <<>> THEN "Completed" ELSE "Pulling"
                   /\ result' = IF n.rest = <<>> THEN <<Ok>> ELSE result
                   /\ item' = <<>>
                   /\ fi' = 0
                   /\ si' = 0
              ELSE /\ pc' = c.pc
                   /\ fi' = c.fi
                   /\ si' = c.si
                   /\ item' = n.val
                   /\ result' = result
    /\ UNCHANGED <<b, buildErr, saved, given>>

\* A run that asks the producer again after it has returned success.
PullAfterReturn ==
    /\ pc \in {"Pulling", "Completed"}
    /\ LET n == SourceNext(P.source)
           c == AfterFilter(0, TRUE)
       IN  /\ pipeline' = <<[P EXCEPT !.source = n.rest]>>
           /\ log' = Append(log, Event("next", 0, n.val,
                                       IF n.val = <<>> THEN "none" ELSE "some"))
           /\ IF n.val = <<>>
              THEN /\ pc' = "Completed"
                   /\ result' = <<Ok>>
                   /\ item' = <<>>
                   /\ fi' = 0
                   /\ si' = 0
              ELSE /\ pc' = c.pc
                   /\ fi' = c.fi
                   /\ si' = c.si
                   /\ item' = n.val
                   /\ result' = result
    /\ UNCHANGED <<b, buildErr, saved, given>>

Pull ==
    /\ pc = "Pulling"
    /\ LET n == SourceNext(P.source)
           c == AfterFilter(0, TRUE)
       IN  /\ pipeline' = <<[P EXCEPT !.source = n.rest]>>
           /\ log' = Append(log, Event("next", 0, n.val,
                                       IF n.val = <<>> THEN "none" ELSE "some"))
           /\ IF n.val = <<>>
              THEN /\ pc' = "Completed"
                   /\ result' = <<Ok>>
                   /\ item' = <<>>
                   /\ fi' = 0
                   /\ si' = 0
              ELSE /\ pc' = c.pc
                   /\ fi' = c.fi
                   /\ si' = c.si
                   /\ item' = n.val
                   /\ result' = result
    /\ UNCHANGED <<b, buildErr, saved, given>>

FilterStep ==
    /\ pc = "Filtering"
    /\ LET r == FilterCall(P.filters[fi], item[1])
           c == AfterFilter(fi, r)
       IN  /\ log' = Append(log, Event("filter", fi, item,
                                       IF r THEN "keep" ELSE "drop"))
           /\ pc' = c.pc
           /\ fi' = c.fi
           /\ si' = c.si
    /\ UNCHANGED <<b, buildErr, pipeline, item, result, saved, given>>

SinkStep ==
    /\ pc = "Persisting"
    /\ LET r == SinkSave(P.sinks[si], item[1])
           c == AfterSave(si, r)
       IN  /\ log' = Append(log, Event("save", si, item,
                                       IF r.ok THEN "ok" ELSE r.err))
           /\ saved' = IF r.ok
                       THEN [saved EXCEPT ![si] = Append(@, item[1])]
                       ELSE saved
           /\ result' = IF c.pc = "Aborted" THEN <<Err(Propagate(r.err))>>
                        ELSE result
           /\ pc' = c.pc
           /\ fi' = c.fi
           /\ si' = c.si
    /\ UNCHANGED <<b, buildErr, pipeline, item, given>>

Next ==
    \/ \E s \in Sources : AddSource(s)
    \/ \E s \in SinkKinds : AddSink(s)
    \/ \E f \in FilterKinds : AddFilter(f)
    \/ Build
    \/ Run
    \/ Pull
    \/ FilterStep
    \/ SinkStep

Spec == Init /\ [][Next]_vars

\* ------------------------------------------- the pipelines of the tests
\* The tests build the Pipeline as a struct literal, without the builder:
\* a vector source, MockFilters and MockSinks.
TestVec == <<1, 2, 3, 4, 5>>

VecSources == SeqsUpTo(Range(TestVec), Len(TestVec))

TestFilters ==
    {<<MockFilter(FALSE)>>, <<MockFilter(TRUE)>>,
     <<MockFilter(TRUE), MockFilter(FALSE)>>}

TestSinks == {<<MockSink>>, <<MockSink, MockSink>>}

InitVec ==
    /\ pc = "Built"
    /\ b = NewBuilder
    /\ buildErr = "none"
    /\ pipeline \in {<<[source |-> v, sinks |-> s, filters |-> f]>> :
                        v \in VecSources, s \in TestSinks, f \in TestFilters}
    /\ given = <<pipeline[1].source>>
    /\ item = <<>>
    /\ fi = 0
    /\ si = 0
    /\ result = <<>>
    /\ saved = <<>>
    /\ log = <<>>

NextVec ==
    \/ Run
    \/ Pull
    \/ FilterStep
    \/ SinkStep

SpecVec == InitVec /\ [][NextVec]_vars

\* ------------------------------------------ a builder with a source set
\* The builder after PipelineBuilder::new().add_source(Box::new(TestVec)):
\* every later add_source replaces a source.
InitReplace ==
    /\ pc = "Builder"
    /\ b = [NewBuilder EXCEPT !.source = <<TestVec>>]
    /\ given = <<TestVec>>
    /\ buildErr = "none"
    /\ pipeline = <<>>
    /\ item = <<>>
    /\ fi = 0
    /\ si = 0
    /\ result = <<>>
    /\ saved = <<>>
    /\ log = <<>>

SpecReplace == InitReplace /\ [][Next]_vars

\* --------------------------------------- producers that are not vectors
\* Pipelines built as struct literals over any producer of at most
\* MaxLen + 1 answers, with at most one filter and at most one sink.
Scripts == SeqsUpTo(0..MaxItem, MaxLen + 1)

InitScript ==
    /\ pc = "Built"
    /\ b = NewBuilder
    /\ buildErr = "none"
    /\ pipeline \in {<<[source |-> v, sinks |-> s, filters |-> f]>> :
                        v \in Scripts,
                        s \in SeqsUpTo(SinkKinds, 1),
                        f \in SeqsUpTo(FilterKinds, 1)}
    /\ given = <<pipeline[1].source>>
    /\ item = <<>>
    /\ fi = 0
    /\ si = 0
    /\ result = <<>>
    /\ saved = <<>>
    /\ log = <<>>

SpecScript == InitScript /\ [][NextVec]_vars

\* run is sequential code whose calls return: the step it is at is taken.
SpecScriptLive ==
    /\ InitScript
    /\ [][NextVec]_vars
    /\ WF_vars(Pull)
    /\ WF_vars(FilterStep)
    /\ WF_vars(SinkStep)

\* ------------------------------------------------- reading the call log
InRun == pc \in {"Pulling", "Filtering", "Persisting", "Completed", "Aborted"}

Terminated == pc \in {"Completed", "Aborted"}

ItemsOf(evs) == [i \in 1..Len(evs) |-> evs[i].item[1]]

IsYield(e) == e.op = "next" /\ e.res = "some"

IsSave(e) == e.op = "save"

IsFailedSave(e) == e.op = "save" /\ e.res # "ok"

\* The items the producer has yielded so far, in yield order.
Yielded == ItemsOf(SelectSeq(log, IsYield))

\* The items sink j has been invoked with so far, in order.
Delivered(j) == ItemsOf(SelectSeq(log, LAMBDA e : IsSave(e) /\ e.idx = j))

\* Every filter of the pipeline keeps every item of the vector v.
AllKeep(v) ==
    \A j \in DOMAIN P.filters : \A x \in Range(v) : FilterCall(P.filters[j], x)

\* ----------------------------------------------------------------- claims

\* C1 (as stated): for a non-empty item sequence and filters that keep every
\* item, once run has returned every sink has been invoked with exactly the
\* items the producer yielded, in yield order.
C1_AllKeepDeliversAll ==
    (Terminated /\ given[1] # <<>> /\ AllKeep(given[1]))
        => \A j \in DOMAIN P.sinks : Delivered(j) = Yielded

\* C1 (amended): for a non-empty item sequence and filters that keep every
\* item, if no save call reported failure, run returns success and every
\* sink has been invoked with, and has saved, exactly the items the producer
\* yielded, in yield order, each once.
C1_AllKeepDeliversAllUnlessSaveFails ==
    (Terminated /\ given[1] # <<>> /\ AllKeep(given[1])
                /\ \A n \in DOMAIN log : ~IsFailedSave(log[n]))
        => /\ pc = "Completed"
           /\ result = <<Ok>>
           /\ Len(Yielded) = Len(given[1])
           /\ \A j \in DOMAIN P.sinks :
                 Delivered(j) = Yielded /\ saved[j] = Yielded

C1_Witness ==
    /\ pc = "Completed"
    /\ Len(given[1]) >= 2
    /\ Len(P.filters) >= 1
    /\ AllKeep(given[1])
    /\ Len(P.sinks) >= 2
    /\ \A j \in DOMAIN P.sinks : saved[j] = Yielded /\ Len(saved[j]) >= 2

\* C2: a failed save is the last call run ever makes: no further pull, no
\* later sink for that item, no filter or sink again, and run has returned
\* failure.
C2_SaveFailureAborts ==
    \A n \in DOMAIN log :
        IsFailedSave(log[n])
            => /\ n = Len(log)
               /\ pc = "Aborted"
               /\ result # <<>>
               /\ ~result[1].ok

C2_Witness ==
    /\ pc = "Aborted"
    /\ IsFailedSave(log[Len(log)])
    /\ log[Len(log)].idx < Len(P.sinks)
    /\ P.source # <<>>
    /\ ~result[1].ok

\* C3: with an always-drop filter anywhere in the filter sequence no sink is
\* ever invoked and run, once it returns, returns success.
C3_DropFilterBlocksSinks ==
    (InRun /\ \E j \in DOMAIN P.filters : P.filters[j] = MockFilter(FALSE))
        => /\ \A n \in DOMAIN log : ~IsSave(log[n])
           /\ pc # "Aborted"
           /\ (pc = "Completed" => result = <<Ok>>)

C3_Witness ==
    /\ pc = "Completed"
    /\ P.filters = <<MockFilter(TRUE), MockFilter(FALSE)>>
    /\ Len(given[1]) >= 2
    /\ Len(P.sinks) >= 1
    /\ result = <<Ok>>
    /\ \A n \in DOMAIN log : ~IsSave(log[n])

\* C4: when add_source was never called, build fails with NoSource and
\* yields no pipeline, whatever filters and sinks were added.
C4_NoSourceBuildFails ==
    (pc # "Builder" /\ given = <<>>)
        => /\ pc = "BuildFailed"
           /\ buildErr = "NoSource"
           /\ pipeline = <<>>

C4_Witness ==
    /\ pc = "BuildFailed"
    /\ given = <<>>
    /\ Len(b.filters) >= 2
    /\ Len(b.sinks) >= 2
    /\ buildErr = "NoSource"
    /\ pipeline = <<>>

\* C5: once build has been called, a pipeline exists if and only if
\* add_source was called at least once; run is only ever under way on a
\* pipeline that exists and holds a source.
C5_PipelineIffSourceSet ==
    /\ pc # "Builder" =>
          /\ (pipeline # <<>>) <=> (given # <<>>)
          /\ (buildErr = "none") <=> (given # <<>>)
    /\ pipeline # <<>> => P.source \in Seq(Items)
    /\ InRun => pipeline # <<>>
    /\ pc = "Builder" => pipeline = <<>>

C5_Witness ==
    /\ pc = "Built"
    /\ given # <<>>
    /\ pipeline # <<>>
    /\ P.source = given[1]
    /\ P.sinks = <<>>
    /\ P.filters = <<>>

\* The place in the log of the pull that yielded the item that the call at
\* place n is about (for a pull at n: the pull before it).
PullBefore(n) ==
    CHOOSE m \in 1..(n - 1) :
        /\ log[m].op = "next"
        /\ \A k \in (m + 1)..(n - 1) : log[k].op # "next"

\* Between the pull at m and the call at n its item was dropped by a filter,
\* or kept by every filter and saved by every sink.
ItemDone(m, n) ==
    LET seg == SubSeq(log, m + 1, n - 1)
    IN  \/ /\ seg # <<>>
           /\ seg[Len(seg)].op = "filter"
           /\ seg[Len(seg)].res = "drop"
        \/ /\ \A j \in DOMAIN P.filters : \E k \in DOMAIN seg :
                  seg[k] = Event("filter", j, log[m].item, "keep")
           /\ \A j \in DOMAIN P.sinks : \E k \in DOMAIN seg :
                  seg[k] = Event("save", j, log[m].item, "ok")

\* C6: the producer is asked for the next item only after the previous item
\* was dropped by a filter or kept by every filter and saved by every sink,
\* and every filter and sink call is about the item pulled last.
C6_Sequential ==
    \A n \in DOMAIN log :
        /\ n = 1 => log[n].op = "next"
        /\ (n > 1 /\ log[n].op = "next") => ItemDone(PullBefore(n), n)
        /\ log[n].op # "next" => log[n].item = log[PullBefore(n)].item

C6_Witness ==
    /\ pc = "Completed"
    /\ Len(P.filters) >= 2
    /\ Len(P.sinks) >= 2
    /\ Len(Yielded) >= 2
    /\ \E n \in DOMAIN log : log[n].res = "drop"
    /\ Len(saved[Len(P.sinks)]) >= 1

\* What the run under way has returned and what each sink has saved.
Outcome == [result |-> result[1], saved |-> saved]

\* C7: a run with no filter ends as the run of the same source and sinks
\* with the single filter MockFilter(true) does, and the other way round:
\* the same result and the same items saved by each sink.
C7_NoFilterIsKeepFilter ==
    Terminated =>
        /\ P.filters = <<>> =>
              Outcome = RunOutcome(given[1], <<MockFilter(TRUE)>>, P.sinks)
        /\ P.filters = <<MockFilter(TRUE)>> =>
              Outcome = RunOutcome(given[1], <<>>, P.sinks)

C7_Witness ==
    /\ pc = "Completed"
    /\ P.filters = <<>>
    /\ Len(given[1]) >= 2
    /\ Len(P.sinks) >= 1
    /\ Len(saved[1]) >= 2
    /\ Outcome = RunOutcome(given[1], <<MockFilter(TRUE)>>, P.sinks)

\* The k-th yielded item survived the filters of the run: it was handed to
\* a sink.
SurvivedInRun(k) ==
    LET m == CHOOSE m \in DOMAIN log :
                 /\ IsYield(log[m])
                 /\ Len(SelectSeq(SubSeq(log, 1, m), IsYield)) = k
    IN  \E n \in (m + 1)..Len(log) : IsSave(log[n]) /\ PullBefore(n) = m

\* The places of the vector v whose items no filter of the sequence drops.
Survivors(v, filters) == {i \in DOMAIN v : ~Drops(filters, v[i])}

\* C8: an item that survives the whole filter sequence survives every
\* prefix of it: an item the run hands to a sink is dropped by no prefix,
\* and the surviving places of the source under the whole sequence are
\* among those under each prefix.
C8_MonotonicNarrowing ==
    InRun =>
        \A n \in 0..Len(P.filters) :
            /\ \A k \in DOMAIN Yielded :
                  SurvivedInRun(k) =>
                      ~Drops(SubSeq(P.filters, 1, n), Yielded[k])
            /\ Survivors(given[1], P.filters)
                  \subseteq Survivors(given[1], SubSeq(P.filters, 1, n))

C8_Witness ==
    /\ pc = "Completed"
    /\ Len(P.filters) >= 2
    /\ Len(P.sinks) >= 1
    /\ \E k \in DOMAIN Yielded : SurvivedInRun(k)
    /\ \E k \in DOMAIN Yielded :
          /\ ~SurvivedInRun(k)
          /\ ~Drops(SubSeq(P.filters, 1, 1), Yielded[k])
    /\ Survivors(given[1], P.filters) # Survivors(given[1], SubSeq(P.filters, 1, 1))

\* C9: the vector source yields its elements one at a time, the last one
\* first, and then reports exhaustion; with the filter MockFilter(true) and
\* one MockSink the completed run has returned success and the sink has
\* saved the reverse of the vector, <<5, 4, 3, 2, 1>> for <<1, 2, 3, 4, 5>>.
C9_VecYieldsLastFirst ==
    InRun =>
        /\ \A k \in DOMAIN Yielded :
              Yielded[k] = given[1][Len(given[1]) + 1 - k]
        /\ Len(P.source) = Len(given[1]) - Len(Yielded)
        /\ pc = "Completed" =>
              /\ Len(Yielded) = Len(given[1])
              /\ log[Len(log)] = Event("next", 0, <<>>, "none")
        /\ (pc = "Completed" /\ P.filters = <<MockFilter(TRUE)>>
                              /\ P.sinks = <<MockSink>>) =>
              /\ result = <<Ok>>
              /\ saved[1] = Reverse(given[1])
              /\ given[1] = TestVec => saved[1] = <<5, 4, 3, 2, 1>>

C9_Witness ==
    /\ pc = "Completed"
    /\ given[1] = TestVec
    /\ P.filters = <<MockFilter(TRUE)>>
    /\ P.sinks = <<MockSink>>
    /\ saved[1] = <<5, 4, 3, 2, 1>>
    /\ result = <<Ok>>

\* C10: when run has aborted, the error it returned is the one the failed
\* save call reported, and that call is the first and only failed one;
\* sinks failing with different errors make run fail with different errors.
C10_FailureVerbatim ==
    pc = "Aborted" =>
        /\ IsFailedSave(log[Len(log)])
        /\ \A n \in 1..(Len(log) - 1) : ~IsFailedSave(log[n])
        /\ result = <<Err(log[Len(log)].res)>>
        /\ log[Len(log)].res = P.sinks[log[Len(log)].idx].err
        /\ item[1] \in P.sinks[log[Len(log)].idx].failsOn

C10_Witness ==
    /\ pc = "Aborted"
    /\ result = <<Err("ErrB")>>
    /\ log[Len(log)].res = "ErrB"
    /\ \E j \in DOMAIN P.sinks : P.sinks[j] = FailSinkA

\* One step as C11 allows it.
C11_Step ==
    /\ (pc = "Builder" /\ pc' = "Builder"
                       /\ (given' # given \/ b'.source # b.source))
          => /\ b'.source = given'
             /\ b'.sinks = b.sinks
             /\ b'.filters = b.filters
             /\ buildErr' = "none"
    /\ (pc = "Builder" /\ pc' # "Builder" /\ given # <<>>)
          => /\ pc' = "Built"
             /\ buildErr' = "none"
             /\ pipeline' = <<[source |-> given[1],
                               sinks |-> b.sinks,
                               filters |-> b.filters]>>
    /\ InRun'
          => /\ given' = given
             /\ \A k \in DOMAIN Yielded' :
                   Yielded'[k] = given[1][Len(given[1]) + 1 - k]

\* C11: add_source replaces the source set before without error and leaves
\* the sinks and filters of the builder as they are; build hands the source
\* set last, with those sinks and filters, to the pipeline, and run pulls
\* the items of that source only.
C11_AddSourceReplaces == [][C11_Step]_vars

C11_Witness ==
    /\ pc = "Completed"
    /\ given[1] # TestVec
    /\ Len(given[1]) >= 2
    /\ Yielded = Reverse(given[1])
    /\ Len(P.sinks) >= 1
    /\ Len(P.filters) >= 1
    /\ P.sinks = b.sinks
    /\ P.filters = b.filters

\* The producer's report of exhaustion in the call log.
Exhausted == Event("next", 0, <<>>, "none")

\* C12: when the producer reports exhaustion run is Completed and has
\* returned success; a Completed run ends with that report, no save has
\* failed in it, and every item pulled before was dropped by a filter or
\* saved by every sink.
C12_ExhaustionCompletes ==
    /\ (log # <<>> /\ log[Len(log)] = Exhausted)
          => pc = "Completed" /\ result = <<Ok>>
    /\ pc = "Completed"
          => /\ log # <<>>
             /\ log[Len(log)] = Exhausted
             /\ \A n \in DOMAIN log : ~IsFailedSave(log[n])
             /\ \A n \in 2..Len(log) :
                   log[n].op = "next" => ItemDone(PullBefore(n), n)

C12_Witness ==
    /\ pc = "Completed"
    /\ result = <<Ok>>
    /\ log[Len(log)] = Exhausted
    /\ P.source = <<>>
    /\ Len(Yielded) >= 2
    /\ \E n \in DOMAIN log : log[n].res = "drop"
    /\ \E n \in DOMAIN log : log[n].res = "ok"

\* Every filter call in the log is the j-th call after the pull of its item,
\* follows a keep of each of the filters 1..j-1 for that item, answers as
\* the j-th filter of the pipeline does, and a drop is followed by nothing
\* but the next pull.
FilterCallsInOrder ==
    \A n \in DOMAIN log :
        log[n].op = "filter" =>
            LET m == PullBefore(n)
                j == log[n].idx
            IN  /\ j \in DOMAIN P.filters
                /\ n = m + j
                /\ log[n].item = log[m].item
                /\ log[n].res = IF FilterCall(P.filters[j], log[m].item[1])
                                THEN "keep" ELSE "drop"
                /\ \A i \in 1..(j - 1) :
                      log[m + i] = Event("filter", i, log[m].item, "keep")
                /\ (log[n].res = "drop" /\ n < Len(log))
                      => log[n + 1].op = "next"

\* One step as C13 allows it.
C13_Step ==
    /\ (pc = "Builder" /\ b'.filters # b.filters)
          => \E f \in FilterKinds : b'.filters = Append(b.filters, f)
    /\ (pc = "Builder" /\ pc' = "Built") => pipeline'[1].filters = b.filters
    /\ InRun' => FilterCallsInOrder'

\* C13: add_filter appends, build keeps that order, and for each pulled item
\* the filters are called in that order, each at most once, filter j only
\* after the filters before it kept the item; after a drop the next call is
\* the next pull, never a sink.
C13_FiltersShortCircuit == [][C13_Step]_vars

C13_Witness ==
    /\ pc = "Completed"
    /\ P.filters = <<KeepOne, MockFilter(FALSE)>>
    /\ Range(given[1]) = {1, 2}
    /\ Len(P.sinks) >= 1
    /\ Len(SelectSeq(log, LAMBDA e : e.op = "filter")) = 3
    /\ \A n \in DOMAIN log : ~IsSave(log[n])
    /\ FilterCallsInOrder

\* Every save call in the log is for the item pulled last, comes after a
\* keep of every filter for it, is the j-th save call for it and follows an
\* ok save of each of the sinks 1..j-1; and an item that every filter keeps
\* is handed to sink j as soon as the sinks before it have saved it.
SaveCallsInOrder ==
    /\ \A n \in DOMAIN log :
          log[n].op = "save" =>
              LET m == PullBefore(n)
                  q == m + Len(P.filters)
                  j == log[n].idx
              IN  /\ j \in DOMAIN P.sinks
                  /\ n = q + j
                  /\ log[n].item = log[m].item
                  /\ log[n].res = SinkSave(P.sinks[j], log[m].item[1]).err
                        \/ (log[n].res = "ok"
                              /\ SinkSave(P.sinks[j], log[m].item[1]).ok)
                  /\ \A i \in DOMAIN P.filters :
                        log[m + i] = Event("filter", i, log[m].item, "keep")
                  /\ \A i \in 1..(j - 1) :
                        log[q + i] = Event("save", i, log[m].item, "ok")
    /\ \A m \in DOMAIN log :
          (IsYield(log[m]) /\ ~Drops(P.filters, log[m].item[1])) =>
              \A j \in DOMAIN P.sinks :
                  LET q == m + Len(P.filters)
                  IN  (q + j <= Len(log)
                         /\ \A i \in 1..(j - 1) : log[q + i].res = "ok")
                        => log[q + j].op = "save" /\ log[q + j].idx = j

\* One step as C14 allows it.
C14_Step ==
    /\ (pc = "Builder" /\ b'.sinks # b.sinks)
          => \E k \in SinkKinds : b'.sinks = Append(b.sinks, k)
    /\ (pc = "Builder" /\ pc' = "Built") => pipeline'[1].sinks = b.sinks
    /\ InRun' => SaveCallsInOrder'

\* C14: add_sink appends, build keeps that order, and for each item that
\* every filter kept the sinks are called in that order, each once, sink j
\* only after the sinks before it saved that item, and never before every
\* filter kept it.
C14_SinksInOrder == [][C14_Step]_vars

C14_Witness ==
    /\ pc = "Completed"
    /\ Len(P.filters) >= 2
    /\ P.sinks = <<MockSink, FailSinkA>>
    /\ Len(given[1]) >= 2
    /\ saved[1] = Yielded
    /\ saved[2] = Yielded
    /\ SaveCallsInOrder

\* C15: run has returned exactly when it is Completed or Aborted, and it
\* returned failure exactly when a save call failed; a filter's drop and the
\* producer's exhaustion make no failure, and NoSource comes from build
\* only, never from run.
C15_FailureIffSaveFailed ==
    /\ (result # <<>>) <=> Terminated
    /\ Terminated =>
          /\ (~result[1].ok) <=> (\E n \in DOMAIN log : IsFailedSave(log[n]))
          /\ (~result[1].ok) <=> (pc = "Aborted")
          /\ result[1].err # "NoSource"
          /\ log[Len(log)] = Exhausted => result = <<Ok>>
    /\ (log # <<>> /\ log[Len(log)].res = "drop") => result = <<>>
    /\ InRun => buildErr = "none"
    /\ buildErr = "NoSource" =>
          pc = "BuildFailed" /\ log = <<>> /\ result = <<>>

C15_Witness ==
    /\ pc = "Aborted"
    /\ ~result[1].ok
    /\ \E n \in DOMAIN log : log[n].res = "drop"
    /\ Len(Yielded) >= 2
    /\ buildErr = "none"

\* C16: a builder with a source and no sink builds a pipeline; its run calls
\* no sink, never aborts, and returns success only after the producer has
\* yielded every item and reported exhaustion.
C16_NoSinksIsValid ==
    /\ (pc # "Builder" /\ given # <<>> /\ b.sinks = <<>>)
          => pipeline # <<>> /\ buildErr = "none" /\ P.sinks = <<>>
    /\ (InRun /\ P.sinks = <<>>)
          => /\ \A n \in DOMAIN log : ~IsSave(log[n])
             /\ pc \notin {"Persisting", "Aborted"}
             /\ pc # "Completed" => result = <<>>
             /\ pc = "Completed"
                   => /\ result = <<Ok>>
                      /\ log[Len(log)] = Exhausted
                      /\ Len(Yielded) = Len(given[1])
                      /\ P.source = <<>>

C16_Witness ==
    /\ pc = "Completed"
    /\ P.sinks = <<>>
    /\ Len(P.filters) >= 1
    /\ Len(Yielded) >= 2
    /\ \E n \in DOMAIN log : log[n].res = "keep"
    /\ result = <<Ok>>

\* The answers the producer v still holds when it first answers None.
LeftAfterExhaustion(v) ==
    IF \E i \in DOMAIN v : v[i] = 0
    THEN LET z == CHOOSE i \in DOMAIN v :
                      v[i] = 0 /\ \A k \in (i + 1)..Len(v) : v[k] # 0
         IN  SubSeq(v, 1, z - 1)
    ELSE <<>>

\* C17: once the producer has reported exhaustion, and once a save has
\* failed, run makes no further call: a Completed run over n yielded items
\* has asked the producer n + 1 times and leaves untouched whatever the
\* producer would yield after its first report of exhaustion.
C17_NoPullAfterExhaustion ==
    InRun =>
        /\ \A n \in DOMAIN log :
              (log[n] = Exhausted \/ IsFailedSave(log[n]))
                  => n = Len(log) /\ Terminated
        /\ pc = "Completed" =>
              /\ Len(SelectSeq(log, LAMBDA e : e.op = "next"))
                    = Len(Yielded) + 1
              /\ P.source = LeftAfterExhaustion(given[1])
              /\ Len(Yielded) + 1 + Len(P.source) = Len(given[1])
                    \/ (P.source = <<>> /\ Len(Yielded) = Len(given[1]))
        /\ pc = "Aborted" =>
              Len(SelectSeq(log, LAMBDA e : e.op = "next")) = Len(Yielded)

C17_Witness ==
    /\ pc = "Completed"
    /\ Len(Yielded) >= 1
    /\ Len(SelectSeq(log, LAMBDA e : e.op = "next")) = Len(Yielded) + 1
    /\ \E i \in DOMAIN P.source : P.source[i] # 0
    /\ Len(P.sinks) >= 1

\* The items pulled before the current one that no filter drops.
EarlierSurvivors ==
    SelectSeq(SubSeq(Yielded, 1, Len(Yielded) - 1),
              LAMBDA x : ~Drops(P.filters, x))

\* C18: during a run what sink j + 1 has saved is a prefix of what sink j
\* has saved, shorter by at most one item; when the run has aborted at an
\* item, the sinks before the failing one have saved that item, the failing
\* one and those after it have not, and all have saved every earlier item
\* that the filters kept.
C18_SavedPrefixChain ==
    InRun =>
        /\ DOMAIN saved = DOMAIN P.sinks
        /\ \A j \in 1..(Len(P.sinks) - 1) :
              /\ Len(saved[j + 1]) <= Len(saved[j])
              /\ Len(saved[j]) <= Len(saved[j + 1]) + 1
              /\ saved[j + 1] = SubSeq(saved[j], 1, Len(saved[j + 1]))
        /\ pc = "Aborted" =>
              LET f == log[Len(log)].idx
              IN  \A j \in DOMAIN P.sinks :
                      saved[j] = IF j < f
                                 THEN Append(EarlierSurvivors, item[1])
                                 ELSE EarlierSurvivors

C18_Witness ==
    /\ pc = "Aborted"
    /\ Len(P.sinks) >= 2
    /\ log[Len(log)].idx = 2
    /\ EarlierSurvivors # <<>>
    /\ saved[2] = EarlierSurvivors
    /\ saved[1] = Append(saved[2], item[1])

\* C19: a run under way over a producer of finitely many answers ends
\* Completed or Aborted, and once it has ended nothing changes any more: it
\* never pulls again.
C19_RunTerminates ==
    /\ (pc \in {"Pulling", "Filtering", "Persisting"}) ~> Terminated
    /\ [][Terminated => (pc' = pc /\ log' = log /\ result' = result)]_vars

C19_Witness ==
    /\ pc = "Aborted"
    /\ Len(Yielded) >= 2
    /\ \A i \in DOMAIN given[1] : given[1][i] # 0
    /\ Len(log) >= 4

====
